---- MODULE Spec2Model ----
(***************************************************************************)
(* Model of src/main.py: Developer, Project and Assignment.                *)
(*                                                                         *)
(* Python strings whose content matters (dates, status) are sequences of   *)
(* one-character strings, so that parsing and formatting are computed.     *)
(* Python lists are sequences; the dict received_tasks is a sequence of    *)
(* <<key, value>> pairs with distinct keys, in insertion order.            *)
(***************************************************************************)
EXTENDS Integers, Sequences, FiniteSets, TLC

VARIABLES
    title,           \* Project.title, per Project object
    projects,        \* Developer.projects, per Developer object
    developers,      \* Project.developers (the roster), per Project object
    last,            \* the last Developer/Project call: arguments, outcome, state before
    description,     \* Assignment.description
    received_tasks,  \* Assignment.received_tasks
    status,          \* Assignment.status
    is_done,         \* Assignment.is_done
    ret              \* the last Assignment call: argument, outcome, state before

orgVars == <<title, projects, developers, last>>
asgVars == <<description, received_tasks, status, is_done, ret>>
vars == <<title, projects, developers, last, description, received_tasks, status, is_done, ret>>

(***************************************************************************)
(* Bounds and the small sets the inputs are drawn from.                    *)
(***************************************************************************)
MaxRoster == 3

Devs == {"alice", "bob"}
Projs == {"p1", "p2"}
Titles == {"Website", "API"}

(***************************************************************************)
(* Python list primitives.                                                 *)
(***************************************************************************)
\* x in s
In(x, s) == \E i \in 1..Len(s) : s[i] = x

\* s.index(x), for x in s
IndexOf(s, x) == CHOOSE i \in 1..Len(s) : s[i] = x /\ \A j \in 1..(i - 1) : s[j] # x

\* s.remove(x), for x in s: the first occurrence goes
ListRemove(s, x) ==
    LET i == IndexOf(s, x)
    IN  SubSeq(s, 1, i - 1) \o SubSeq(s, i + 1, Len(s))

Count(s, x) == Cardinality({i \in 1..Len(s) : s[i] = x})

(***************************************************************************)
(* Developer                                                               *)
(***************************************************************************)
\* [project.title for project in self.projects]
get_assigned_projects(d) == [i \in 1..Len(projects[d]) |-> title[projects[d][i]]]

\* The body of Developer.assign on a project list: whether it raises
\* ValueError, and the list it leaves.
AssignNoCheck(projs, p) == [raised |-> FALSE, projects |-> Append(projs, p)]
AssignAppendThenRaise(projs, p) ==
    [raised |-> In(p, projs), projects |-> Append(projs, p)]
AssignBody(projs, p) ==
    IF In(p, projs)
    THEN [raised |-> TRUE, projects |-> projs]
    ELSE [raised |-> FALSE, projects |-> Append(projs, p)]

\* The body of Developer.cancel_appointment on a project list.
CancelNoop(projs, p) == projs
CancelBody(projs, p) ==
    IF In(p, projs) THEN ListRemove(projs, p) ELSE projs

NoCall == [op |-> "none", dev |-> "none", proj |-> "none", raised |-> FALSE,
           preProjects |-> <<>>, preDevelopers |-> <<>>, afterAssign |-> FALSE]

Call(op, d, p, raised, after) ==
    [op |-> op, dev |-> d, proj |-> p, raised |-> raised,
     preProjects |-> projects[d], preDevelopers |-> developers[p],
     afterAssign |-> after]

\* developer.assign(project)
assign(d, p) ==
    LET r == AssignBody(projects[d], p)
    IN  /\ projects' = [projects EXCEPT ![d] = r.projects]
        /\ last' = Call("assign", d, p, r.raised, FALSE)
        /\ UNCHANGED <<title, developers>>
        /\ UNCHANGED asgVars

\* developer.cancel_appointment(project)
cancel_appointment(d, p) ==
    /\ projects' = [projects EXCEPT ![d] = CancelBody(projects[d], p)]
    /\ last' = Call("cancel_appointment", d, p, FALSE,
                    last.op = "assign" /\ ~last.raised /\ last.dev = d /\ last.proj = p)
    /\ UNCHANGED <<title, developers>>
    /\ UNCHANGED asgVars

(***************************************************************************)
(* Project                                                                 *)
(***************************************************************************)
\* project.add_developer(developer): the ValueError of assign is caught, and
\* the append to the roster follows in both cases.
AddOnlyOnSuccess(p, d) ==
    LET r == AssignBody(projects[d], p)
    IN  /\ Len(developers[p]) < MaxRoster
        /\ projects' = [projects EXCEPT ![d] = r.projects]
        /\ developers' = [developers EXCEPT ![p] =
                             IF r.raised THEN @ ELSE Append(@, d)]
        /\ last' = Call("add_developer", d, p, FALSE, FALSE)
        /\ UNCHANGED title
        /\ UNCHANGED asgVars
add_developer(p, d) ==
    LET r == AssignBody(projects[d], p)
    IN  /\ Len(developers[p]) < MaxRoster
        /\ projects' = [projects EXCEPT ![d] = r.projects]
        /\ developers' = [developers EXCEPT ![p] = Append(@, d)]
        /\ last' = Call("add_developer", d, p, FALSE, FALSE)
        /\ UNCHANGED title
        /\ UNCHANGED asgVars

\* project.remove_developer(developer): cancel_appointment runs first, then
\* list.remove raises ValueError when the developer is not in the roster.
RemoveLastOccurrence(s, x) ==
    LET i == CHOOSE k \in 1..Len(s) : s[k] = x /\ \A j \in (k + 1)..Len(s) : s[j] # x
    IN  SubSeq(s, 1, i - 1) \o SubSeq(s, i + 1, Len(s))
RemoveChecksFirst(p, d) ==
    LET present == In(d, developers[p])
    IN  /\ projects' = [projects EXCEPT ![d] =
                           IF present THEN CancelBody(@, p) ELSE @]
        /\ developers' = [developers EXCEPT ![p] =
                             IF present THEN ListRemove(@, d) ELSE @]
        /\ last' = Call("remove_developer", d, p, ~present, FALSE)
        /\ UNCHANGED title
        /\ UNCHANGED asgVars
RemoveFromEnd(p, d) ==
    LET present == In(d, developers[p])
    IN  /\ projects' = [projects EXCEPT ![d] = CancelBody(@, p)]
        /\ developers' = [developers EXCEPT ![p] =
                             IF present THEN RemoveLastOccurrence(@, d) ELSE @]
        /\ last' = Call("remove_developer", d, p, ~present, FALSE)
        /\ UNCHANGED title
        /\ UNCHANGED asgVars
remove_developer(p, d) ==
    LET present == In(d, developers[p])
    IN  /\ projects' = [projects EXCEPT ![d] = CancelBody(@, p)]
        /\ developers' = [developers EXCEPT ![p] =
                             IF present THEN ListRemove(@, d) ELSE @]
        /\ last' = Call("remove_developer", d, p, ~present, FALSE)
        /\ UNCHANGED title
        /\ UNCHANGED asgVars

(***************************************************************************)
(* Text: digits, decimal formatting, str() of a float.                     *)
(***************************************************************************)
Digits == {"0", "1", "2", "3", "4", "5", "6", "7", "8", "9"}

DigitVal(c) ==
    CASE c = "0" -> 0 [] c = "1" -> 1 [] c = "2" -> 2 [] c = "3" -> 3
      [] c = "4" -> 4 [] c = "5" -> 5 [] c = "6" -> 6 [] c = "7" -> 7
      [] c = "8" -> 8 [] c = "9" -> 9

DigitChar(n) == CHOOSE c \in Digits : DigitVal(c) = n

IsDigits(s) == Len(s) > 0 /\ \A i \in 1..Len(s) : s[i] \in Digits

\* int(s) for a string of decimal digits
RECURSIVE IntOf(_)
IntOf(s) ==
    IF Len(s) = 0 THEN 0
    ELSE 10 * IntOf(SubSeq(s, 1, Len(s) - 1)) + DigitVal(s[Len(s)])

\* str(n) for an int n >= 0
RECURSIVE IntStr(_)
IntStr(n) ==
    IF n < 10 THEN <<DigitChar(n)>>
    ELSE Append(IntStr(n \div 10), DigitChar(n % 10))

RECURSIVE GCD(_, _)
GCD(a, b) == IF b = 0 THEN a ELSE GCD(b, a % b)

\* str(a / 3) for the quotients a / 3 that are not integers: the shortest
\* decimal that reads back as the IEEE double nearest to a / 3.
ThirdsStr(a) ==
    CASE a = 50  -> <<"1", "6", ".", "6", "6", "6", "6", "6", "6", "6", "6", "6", "6", "6", "6", "6", "6", "8">>
      [] a = 100 -> <<"3", "3", ".", "3", "3", "3", "3", "3", "3", "3", "3", "3", "3", "3", "3", "3", "3", "6">>
      [] a = 200 -> <<"6", "6", ".", "6", "6", "6", "6", "6", "6", "6", "6", "6", "6", "6", "6", "6", "7">>
      [] a = 250 -> <<"8", "3", ".", "3", "3", "3", "3", "3", "3", "3", "3", "3", "3", "3", "3", "3", "3">>

\* str(num / den): true division gives a float, printed with a fraction part.
\* Covers the quotients of 100 * k by a task count of at most 6.
PyFloatStr(num, den) ==
    IF num % den = 0
    THEN IntStr(num \div den) \o <<".", "0">>
    ELSE LET g == GCD(num, den) IN ThirdsStr(num \div g)

(***************************************************************************)
(* datetime.strptime(s, "%m/%d/%Y") and the comparison of two datetimes.   *)
(***************************************************************************)
\* s.split(sep)
RECURSIVE Split(_, _)
Split(s, sep) ==
    IF ~In(sep, s) THEN <<s>>
    ELSE LET i == IndexOf(s, sep)
         IN  <<SubSeq(s, 1, i - 1)>> \o Split(SubSeq(s, i + 1, Len(s)), sep)

IsLeap(y) == y % 4 = 0 /\ (y % 100 # 0 \/ y % 400 = 0)

DaysInMonth(y, m) ==
    CASE m \in {1, 3, 5, 7, 8, 10, 12} -> 31
      [] m \in {4, 6, 9, 11} -> 30
      [] m = 2 -> IF IsLeap(y) THEN 29 ELSE 28

\* Whether strptime accepts s: %m is one or two digits in 1..12, %d one or
\* two digits in 1..31, %Y four digits; then datetime(y, m, d) must exist.
WellFormed(s) ==
    LET f == Split(s, "/")
    IN  /\ Len(f) = 3
        /\ IsDigits(f[1]) /\ Len(f[1]) <= 2 /\ IntOf(f[1]) \in 1..12
        /\ IsDigits(f[2]) /\ Len(f[2]) <= 2 /\ IntOf(f[2]) \in 1..31
        /\ IsDigits(f[3]) /\ Len(f[3]) = 4 /\ IntOf(f[3]) >= 1
        /\ IntOf(f[2]) <= DaysInMonth(IntOf(f[3]), IntOf(f[1]))

\* The datetime strptime returns, for a string it accepts.
strptime(s) ==
    LET f == Split(s, "/")
    IN  [year |-> IntOf(f[3]), month |-> IntOf(f[1]), day |-> IntOf(f[2])]

\* a < b on datetimes: year, then month, then day
DateLess(a, b) ==
    \/ a.year < b.year
    \/ a.year = b.year /\ a.month < b.month
    \/ a.year = b.year /\ a.month = b.month /\ a.day < b.day

(***************************************************************************)
(* Assignment                                                              *)
(***************************************************************************)
\* Date strings used as keys of received_tasks (all accepted by strptime).
KeyDates == {
    <<"0", "9", "/", "0", "1", "/", "2", "0", "2", "2">>,
    <<"1", "0", "/", "0", "1", "/", "2", "0", "2", "2">>,
    <<"0", "1", "/", "1", "5", "/", "2", "0", "2", "3">> }

\* Strings passed to get_tasks_to_date: dates, two spellings of one date, a
\* day that does not exist and a string in another format.
ArgDates == {
    <<"0", "9", "/", "3", "0", "/", "2", "0", "2", "2">>,
    <<"1", "0", "/", "0", "1", "/", "2", "0", "2", "2">>,
    <<"1", "0", "/", "1", "/", "2", "0", "2", "2">>,
    <<"0", "1", "/", "1", "5", "/", "2", "0", "2", "3">>,
    <<"0", "2", "/", "2", "9", "/", "2", "0", "2", "4">>,
    <<"0", "2", "/", "3", "0", "/", "2", "0", "2", "2">>,
    <<"2", "0", "2", "2", "-", "0", "9", "-", "3", "0">> }

TaskNames == {"code", "review"}
Tasks == [name : TaskNames, is_done : BOOLEAN]

HasKey(tasks, k) == \E i \in 1..Len(tasks) : tasks[i][1] = k

\* tasks[k] = v on a dict: a present key keeps its place, a new one goes last
DictSet(tasks, k, v) ==
    IF HasKey(tasks, k)
    THEN [i \in 1..Len(tasks) |-> IF tasks[i][1] = k THEN <<k, v>> ELSE tasks[i]]
    ELSE Append(tasks, <<k, v>>)

\* del tasks[k], for a present key
DictDel(tasks, k) == SelectSeq(tasks, LAMBDA e : e[1] # k)

\* [task for _, task in tasks.items() if task["is_done"]]
DoneTasks(tasks) ==
    LET vals == [i \in 1..Len(tasks) |-> tasks[i][2]]
    IN  SelectSeq(vals, LAMBDA t : t.is_done)

\* The string calculate_status stores, for a given received_tasks.
StatusCountsAll(tasks) ==
    IF Len(tasks) > 0
    THEN PyFloatStr(100 * Len(tasks), Len(tasks)) \o <<"%">>
    ELSE <<"0", "%">>
StatusOf(tasks) ==
    LET done == DoneTasks(tasks)
    IN  IF Len(done) > 0
        THEN PyFloatStr(100 * Len(done), Len(tasks)) \o <<"%">>
        ELSE <<"0", "%">>

\* [v for k, v in tasks.items() if strptime(k) < strptime(date)]
TasksBeforeOrOn(tasks, date) ==
    LET sel == SelectSeq(tasks, LAMBDA e : ~DateLess(strptime(date), strptime(e[1])))
    IN  [i \in 1..Len(sel) |-> sel[i][2]]
TasksBefore(tasks, date) ==
    LET sel == SelectSeq(tasks, LAMBDA e : DateLess(strptime(e[1]), strptime(date)))
    IN  [i \in 1..Len(sel) |-> sel[i][2]]

NoAsgCall == [op |-> "none", arg |-> <<>>, raised |-> FALSE, result |-> <<>>,
              preTasks |-> <<>>, preStatus |-> <<>>,
              preDescription |-> "", preIsDone |-> FALSE]

AsgCall(op, arg, raised, result) ==
    [op |-> op, arg |-> arg, raised |-> raised, result |-> result,
     preTasks |-> received_tasks, preStatus |-> status,
     preDescription |-> description, preIsDone |-> is_done]

\* An edit of received_tasks by a caller; the dict before it is not kept.
Edit(op) == [AsgCall(op, <<>>, FALSE, <<>>) EXCEPT !.preTasks = <<>>]

\* assignment.received_tasks[k] = v, done by a caller
SetTaskResync(k, v) ==
    /\ received_tasks' = DictSet(received_tasks, k, v)
    /\ status' = StatusOf(received_tasks')
    /\ ret' = Edit("set_task")
    /\ UNCHANGED <<description, is_done>>
    /\ UNCHANGED orgVars
set_task(k, v) ==
    /\ received_tasks' = DictSet(received_tasks, k, v)
    /\ ret' = Edit("set_task")
    /\ UNCHANGED <<description, status, is_done>>
    /\ UNCHANGED orgVars

\* del assignment.received_tasks[k], done by a caller
del_task(k) ==
    /\ HasKey(received_tasks, k)
    /\ received_tasks' = DictDel(received_tasks, k)
    /\ ret' = Edit("del_task")
    /\ UNCHANGED <<description, status, is_done>>
    /\ UNCHANGED orgVars

\* assignment.calculate_status()
calculate_status ==
    /\ status' = StatusOf(received_tasks)
    /\ ret' = AsgCall("calculate_status", <<>>, FALSE, <<>>)
    /\ UNCHANGED <<description, received_tasks, is_done>>
    /\ UNCHANGED orgVars

\* assignment.get_tasks_to_date(date): ValueError when strptime rejects the
\* argument or a key, else the list of selected task records.
get_tasks_to_date(date) ==
    LET bad == ~WellFormed(date)
               \/ \E i \in 1..Len(received_tasks) : ~WellFormed(received_tasks[i][1])
    IN  /\ ret' = AsgCall("get_tasks_to_date", date, bad,
                          IF bad THEN <<>> ELSE TasksBefore(received_tasks, date))
        /\ UNCHANGED <<description, received_tasks, status, is_done>>
        /\ UNCHANGED orgVars

(***************************************************************************)
(* Specifications.                                                         *)
(***************************************************************************)
\* Developer.__init__ and Project.__init__, the projects titled by t
InitOrg(t) ==
    /\ title = t
    /\ projects = [d \in Devs |-> <<>>]
    /\ developers = [p \in Projs |-> <<>>]
    /\ last = NoCall

\* Assignment.__init__(desc)
InitAssignment(desc) ==
    /\ description = desc
    /\ received_tasks = <<>>
    /\ status = <<>>
    /\ is_done = FALSE
    /\ ret = NoAsgCall

DistinctTitles == [p \in Projs |-> IF p = "p1" THEN "Website" ELSE "API"]

\* Developers and projects under all four mutating methods.
Init == InitOrg(DistinctTitles) /\ InitAssignment("Fix bug")

Next ==
    \E d \in Devs, p \in Projs :
        \/ assign(d, p)
        \/ cancel_appointment(d, p)
        \/ add_developer(p, d)
        \/ remove_developer(p, d)

Spec == Init /\ [][Next]_vars

\* Developers and projects when only the Project methods are called.
NextRoster ==
    \E d \in Devs, p \in Projs :
        \/ add_developer(p, d)
        \/ remove_developer(p, d)

SpecRoster == Init /\ [][NextRoster]_vars

\* The Developer methods alone, over projects titled in any way: two Project
\* objects may carry the same title.
InitDeveloper == (\E t \in [Projs -> Titles] : InitOrg(t)) /\ InitAssignment("Fix bug")

NextDeveloper ==
    \E d \in Devs, p \in Projs :
        \/ assign(d, p)
        \/ cancel_appointment(d, p)

SpecDeveloper == InitDeveloper /\ [][NextDeveloper]_vars

\* One Assignment: edits of received_tasks and the two methods.
InitTasks == InitOrg(DistinctTitles) /\ InitAssignment("Write docs")

NextAssignment ==
    \/ \E k \in KeyDates, v \in Tasks : set_task(k, v)
    \/ \E k \in KeyDates : del_task(k)
    \/ calculate_status
    \/ \E date \in ArgDates : get_tasks_to_date(date)

SpecAssignment == InitTasks /\ [][NextAssignment]_vars

(***************************************************************************)
(* Developer and Project: properties.                                      *)
(***************************************************************************)
\* C1: in every state reached by assign, cancel_appointment, add_developer
\* and remove_developer calls, raising ones included, no Developer's project
\* list holds the same Project twice.
C1_NoDuplicateProjects ==
    \A d \in Devs, p \in Projs : Count(projects[d], p) <= 1

\* A second add_developer of the same developer: the roster holds the
\* developer twice, the developer's list holds the project once.
C1_Witness ==
    /\ last.op = "add_developer"
    /\ In(last.proj, last.preProjects)
    /\ Count(developers[last.proj], last.dev) >= 2
    /\ Count(projects[last.dev], last.proj) = 1

\* C2: after any sequence of add_developer and remove_developer calls, D is
\* in P's roster if and only if P is in D's project list.
C2_InSync ==
    \A d \in Devs, p \in Projs : In(d, developers[p]) <=> In(p, projects[d])

\* C3: a successful D.assign(P) leaves P.title in D.get_assigned_projects();
\* D.assign(P) with P already in the list raises ValueError and leaves the
\* list as it was, and assign raises in no other case.
C3_AssignAndReassign ==
    last.op = "assign" =>
        LET d == last.dev
            p == last.proj
        IN  /\ last.raised <=> In(p, last.preProjects)
            /\ ~last.raised =>
                   /\ In(title[p], get_assigned_projects(d))
                   /\ projects[d][Len(projects[d])] = p
                   /\ Len(projects[d]) = Len(last.preProjects) + 1
            /\ last.raised => projects[d] = last.preProjects

\* A rejected second assign on a list of two projects.
C3_Witness ==
    /\ last.op = "assign"
    /\ last.raised
    /\ Len(projects[last.dev]) = 2
    /\ In(title[last.proj], get_assigned_projects(last.dev))

\* C4: add_developer never raises and appends D to the roster in every call;
\* D's project list grows by one only if the project was not in it. A second
\* add_developer(D) on a fresh project and developer gives a roster of
\* length 2 and a project list of length 1.
C4_AddAlwaysAppends ==
    last.op = "add_developer" =>
        LET d == last.dev
            p == last.proj
        IN  /\ ~last.raised
            /\ developers[p] = Append(last.preDevelopers, d)
            /\ Len(projects[d]) = Len(last.preProjects)
                                  + (IF In(p, last.preProjects) THEN 0 ELSE 1)
            /\ (last.preDevelopers = <<d>> /\ last.preProjects = <<p>>) =>
                   (Len(developers[p]) = 2 /\ Len(projects[d]) = 1)

\* The second of two add_developer(D) calls on a fresh project and developer.
C4_Witness ==
    /\ last.op = "add_developer"
    /\ last.preDevelopers = <<last.dev>>
    /\ last.preProjects = <<last.proj>>
    /\ developers[last.proj] = <<last.dev, last.dev>>
    /\ projects[last.dev] = <<last.proj>>

\* C5: remove_developer(D) raises ValueError exactly when D is not in the
\* roster; otherwise the first occurrence of D leaves the roster and the
\* other entries keep their order.
C5_RemoveFirstOccurrence ==
    last.op = "remove_developer" =>
        LET d == last.dev
            pre == last.preDevelopers
            now == developers[last.proj]
        IN  /\ last.raised <=> ~In(d, pre)
            /\ ~last.raised =>
                   \E i \in 1..Len(pre) :
                       /\ pre[i] = d
                       /\ \A j \in 1..(i - 1) : pre[j] # d
                       /\ Len(now) = Len(pre) - 1
                       /\ \A j \in 1..Len(now) :
                              now[j] = IF j < i THEN pre[j] ELSE pre[j + 1]

\* A removal from a roster that held the developer before and after another.
C5_Witness ==
    /\ last.op = "remove_developer"
    /\ ~last.raised
    /\ Len(last.preDevelopers) = 3
    /\ last.preDevelopers[1] = last.dev
    /\ last.preDevelopers[2] # last.dev
    /\ last.preDevelopers[3] = last.dev
    /\ developers[last.proj] = <<last.preDevelopers[2], last.dev>>

C10_FailedRemoveCancels ==
    (last.op = "remove_developer" /\ ~In(last.dev, last.preDevelopers)
        /\ In(last.proj, last.preProjects)) =>
        /\ last.raised
        /\ developers[last.proj] = last.preDevelopers
        /\ ~In(last.proj, projects[last.dev])
        /\ Len(projects[last.dev]) = Len(last.preProjects) - 1

\* A raising remove_developer after a direct assign.
C10_Witness ==
    /\ last.op = "remove_developer"
    /\ last.raised
    /\ In(last.proj, last.preProjects)
    /\ ~In(last.proj, projects[last.dev])

(***************************************************************************)
(* Assignment: properties.                                                 *)
(***************************************************************************)
\* A percentage string: decimal digits, optionally a point and more digits,
\* then "%".
IsPercent(s) ==
    /\ Len(s) >= 2
    /\ s[Len(s)] = "%"
    /\ LET f == Split(SubSeq(s, 1, Len(s) - 1), ".")
       IN  /\ Len(f) \in {1, 2}
           /\ \A i \in 1..Len(f) : IsDigits(f[i])

\* C7 as stated: in every state from construction onwards status is a
\* percentage string, and it is the status of before unless the last call
\* was calculate_status.
C7_AlwaysPercent ==
    /\ IsPercent(status)
    /\ ret.op # "calculate_status" => status = ret.preStatus

\* C7 amended: status is the empty string from construction until the first
\* calculate_status call and a percentage string from then on; it changes
\* only in a calculate_status call, never in an edit of received_tasks.
C7_PercentOnceCalculated ==
    /\ [](status = <<>> \/ IsPercent(status))
    /\ [][/\ IsPercent(status) => IsPercent(status')
          /\ status' # status => ret'.op = "calculate_status"
          /\ ret'.op = "calculate_status" => IsPercent(status')
          /\ (status = <<>> /\ ret'.op # "calculate_status") => status' = <<>>]_vars

\* An edit after calculate_status: status is the percentage of the tasks as
\* they were, not as they are.
C7_Witness ==
    /\ ret.op = "set_task"
    /\ IsPercent(status)
    /\ status = <<"0", "%">>
    /\ \E i \in 1..Len(received_tasks) : received_tasks[i][2].is_done

\* The i-th digit after the point of r / t, for 0 <= r < t, by long division.
RECURSIVE FractionDigit(_, _, _)
FractionDigit(r, t, i) ==
    IF i = 1 THEN (10 * r) \div t
    ELSE FractionDigit((10 * r) % t, t, i - 1)

\* s prints num / den as a float does: the integer part is exact; an exact
\* quotient has the fraction "0"; otherwise the fraction runs to the 16 or 17
\* significant digits of a double and agrees with the long division in all
\* but its last two digits.
PrintsQuotient(s, num, den) ==
    LET f == Split(s, ".")
    IN  /\ Len(f) = 2
        /\ IsDigits(f[1]) /\ IsDigits(f[2])
        /\ IntOf(f[1]) = num \div den
        /\ num % den = 0 => f[2] = <<"0">>
        /\ num % den # 0 =>
               /\ Len(f[1]) + Len(f[2]) \in {16, 17}
               /\ \A i \in 1..(Len(f[2]) - 2) :
                      DigitVal(f[2][i]) = FractionDigit(num % den, den, i)

\* C8: calculate_status stores "0%" when received_tasks is empty or no task
\* is done, else the percentage 100 * done / total followed by "%", and
\* touches no other attribute.
C8_StatusIsPercentageDone ==
    ret.op = "calculate_status" =>
        LET total == Len(received_tasks)
            done == Cardinality({i \in 1..total : received_tasks[i][2].is_done})
        IN  /\ received_tasks = ret.preTasks
            /\ description = ret.preDescription
            /\ is_done = ret.preIsDone
            /\ ~ret.raised
            /\ done = 0 => status = <<"0", "%">>
            /\ done > 0 =>
                   /\ status[Len(status)] = "%"
                   /\ PrintsQuotient(SubSeq(status, 1, Len(status) - 1), 100 * done, total)

\* One task done out of two: "50.0%".
C8_Witness ==
    /\ ret.op = "calculate_status"
    /\ Len(received_tasks) = 2
    /\ received_tasks[1][2].is_done
    /\ ~received_tasks[2][2].is_done
    /\ status = <<"5", "0", ".", "0", "%">>

\* date.toordinal(): the number of the day, 01/01/0001 being day 1.
DaysBeforeMonth(y, m) ==
    LET before == <<0, 31, 59, 90, 120, 151, 181, 212, 243, 273, 304, 334>>
    IN  before[m] + (IF m > 2 /\ IsLeap(y) THEN 1 ELSE 0)

Ordinal(dt) ==
    LET y == dt.year - 1
    IN  365 * y + (y \div 4) - (y \div 100) + (y \div 400)
        + DaysBeforeMonth(dt.year, dt.month) + dt.day

\* C9: for a well-formed date, get_tasks_to_date returns the task records
\* whose key is a day strictly before date, in the insertion order of
\* received_tasks, and changes nothing.
C9_TasksStrictlyBefore ==
    (ret.op = "get_tasks_to_date" /\ WellFormed(ret.arg)) =>
        LET day == Ordinal(strptime(ret.arg))
            sel == {i \in 1..Len(received_tasks) :
                       Ordinal(strptime(received_tasks[i][1])) < day}
        IN  /\ ~ret.raised
            /\ received_tasks = ret.preTasks
            /\ status = ret.preStatus
            /\ description = ret.preDescription
            /\ is_done = ret.preIsDone
            /\ Len(ret.result) = Cardinality(sel)
            /\ \A i \in sel :
                   ret.result[Cardinality({j \in sel : j <= i})] = received_tasks[i][2]

\* Tasks on 01/15/2023, 09/01/2022 and 10/01/2022, asked up to 10/1/2022:
\* the task of 09/01/2022 alone, the one of the day itself left out.
C9_Witness ==
    /\ ret.op = "get_tasks_to_date"
    /\ ret.arg = <<"1", "0", "/", "1", "/", "2", "0", "2", "2">>
    /\ Len(received_tasks) = 3
    /\ received_tasks[1][1] = <<"0", "1", "/", "1", "5", "/", "2", "0", "2", "3">>
    /\ received_tasks[2][1] = <<"0", "9", "/", "0", "1", "/", "2", "0", "2", "2">>
    /\ received_tasks[3][1] = <<"1", "0", "/", "0", "1", "/", "2", "0", "2", "2">>
    /\ ret.result = <<received_tasks[2][2]>>

====
